---- MODULE Spec2Model ----
(***************************************************************************)
(* Model of class Vector (src/vector.py): an n-dimensional vector of      *)
(* Decimal coordinates and its operations.                                 *)
(*                                                                         *)
(* A client holds two Vector objects, v and w, and calls one method at a   *)
(* time; `call` records the method and its operands, `result` what the     *)
(* call returned or raised.                                                *)
(*                                                                         *)
(* Decimal numbers are fixed-point: a Decimal is the integer number of     *)
(* 10^-Digits units it holds.  Integers and their sums, differences and    *)
(* products are exact, as they are under getcontext().prec = 30;           *)
(* quotients and square roots are rounded to the last unit.                *)
(*                                                                         *)
(* The except-clauses of cross_product compare str(e) with the wording     *)
(* CPython 2 gives to a failed tuple unpacking, so the interpreter         *)
(* modelled is CPython 2.                                                  *)
(***************************************************************************)
EXTENDS Integers, Sequences, FiniteSets, TLC

VARIABLES v, w, call, result, chain, pc

vars == <<v, w, call, result, chain, pc>>

----------------------------------------------------------------------------
(* Bounds of the model *)

\* digits kept after the decimal point by a modelled Decimal
Digits == 2
\* longest coordinate list a client constructs
MaxDim == 4
\* how many results of an operation a client keeps as an operand
MaxChain == 1
\* a result is kept only when its coordinates lie within -MaxAbs..MaxAbs
MaxAbs == 4

RECURSIVE Pow10(_)
Pow10(n) == IF n = 0 THEN 1 ELSE 10 * Pow10(n - 1)

Scale == Pow10(Digits)

----------------------------------------------------------------------------
(* Outcomes of a call, and exceptions *)

Ok(val) == [kind |-> "ok", val |-> val]

Exc(type, msg) == [type |-> type, msg |-> msg]

Raise(e) == [kind |-> "raise", exc |-> e]

\* statement sequencing: an exception raised by the first statement leaves
\* the block, a value goes on into the rest
Bind(outcome, rest(_)) ==
    IF outcome.kind = "raise" THEN outcome ELSE rest(outcome.val)

\* try: body, except ... as e: handler(e)
Try(body, handler(_)) ==
    IF body.kind = "raise" THEN handler(body.exc) ELSE body

\* module constants (not part of the sources at hand): four message texts
CANNOT_NORMALIZE_ZERO_VECTOR_MSG == "Cannot normalize the zero vector"
NO_UNIQUE_PARALLEL_COMPONENT_MSG == "There is no unique parallel component"
NO_UNIQUE_ORTHOGONAL_COMPONENT_MSG == "There is no unique orthogonal component"
ONLY_DEFINED_IN_TWO_THREE_DIMS_MSG == "Only defined in two three dims"

\* names an instance of Vector resolves: its two fields and the methods of
\* the class body
VectorAttributes ==
    {"coordinates", "dimension",
     "is_zero", "magnitude", "normalized", "dot_product", "angle_with",
     "is_parallel_to", "is_orthogonal_to", "component_parallel_to",
     "component_orthogonal_to", "projected_vector", "cross_product",
     "area_of_triangle_with", "area_of_parallelogram_with",
     "plus", "minus", "times_scalar"}

\* self.<name>: AttributeError for a name the object does not have
GetAttr(name) ==
    IF name \in VectorAttributes
    THEN Ok(name)
    ELSE Raise(Exc("AttributeError", name))

----------------------------------------------------------------------------
(* Decimal arithmetic *)

Abs(x) == IF x < 0 THEN -x ELSE x

Min(a, b) == IF a <= b THEN a ELSE b

\* a / b rounded to the nearest integer, ties to even (ROUND_HALF_EVEN)
RoundDiv(a, b) ==
    LET n == Abs(a)
        d == Abs(b)
        q == n \div d
        r == n % d
        m == IF 2 * r > d \/ (2 * r = d /\ q % 2 = 1) THEN q + 1 ELSE q
    IN  IF (a < 0) = (b < 0) THEN m ELSE -m

\* numeric-like values handed to Decimal(): an int, a Decimal, a string
FromInt(n) == [t |-> "int", n |-> n, u |-> 0, s |-> ""]
FromDec(u) == [t |-> "dec", n |-> 0, u |-> u, s |-> ""]
FromStr(s) == [t |-> "str", n |-> 0, u |-> 0, s |-> s]

\* Decimal(x), in units
Decimal(x) ==
    CASE x.t = "int" -> x.n * Scale
      [] x.t = "dec" -> x.u
      [] x.t = "str" -> CASE x.s = "0" -> 0
                          [] x.s = "1.0" -> Scale
                          [] x.s = "2.0" -> 2 * Scale

DecMul(a, b) == RoundDiv(a * b, Scale)

\* a / b on Decimals; a nonzero dividend over zero raises DivisionByZero,
\* a ZeroDivisionError
DecDiv(a, b) ==
    IF b = 0
    THEN Raise(Exc("ZeroDivisionError", "DivisionByZero"))
    ELSE Ok(RoundDiv(a * Scale, b))

RECURSIVE sum(_)
sum(s) == IF s = <<>> THEN 0 ELSE Head(s) + sum(Tail(s))

RECURSIVE ISqrt(_, _, _)
\* largest r in lo..hi with r*r <= n
ISqrt(n, lo, hi) ==
    IF lo = hi THEN lo
    ELSE LET mid == (lo + hi + 1) \div 2
         IN  IF mid * mid <= n THEN ISqrt(n, mid, hi) ELSE ISqrt(n, lo, mid - 1)

\* Decimal(sqrt(x)) for a Decimal x >= 0, rounded to the nearest unit
sqrt(x) ==
    LET n == x * Scale
        r == ISqrt(n, 0, 46340)
    IN  IF n - r * r > r THEN r + 1 ELSE r

\* zip(a, b): as many pairs as the shorter sequence has elements
zip(a, b) == [i \in 1..Min(Len(a), Len(b)) |-> <<a[i], b[i]>>]

----------------------------------------------------------------------------
(* class Vector *)

\* what a client passes to Vector(): a list, or an int (not iterable)
List(items) == [iterable |-> TRUE, items |-> items, n |-> 0]
NotIterable(n) == [iterable |-> FALSE, items |-> <<>>, n |-> n]

\* a list of Decimals, as the methods pass to Vector()
DecList(units) == List([i \in 1..Len(units) |-> FromDec(units[i])])

\* Vector.__init__ without the emptiness test
Vector_AcceptsEmpty(coordinates) ==
    IF ~coordinates.iterable
    THEN Raise(Exc("TypeError", "The coordinates must be an iterable"))
    ELSE Ok([coordinates |-> [i \in 1..Len(coordinates.items) |->
                                 Decimal(coordinates.items[i])],
             dimension |-> Len(coordinates.items)])

\* Vector.__init__
Vector(coordinates) ==
    IF (coordinates.iterable /\ coordinates.items = <<>>)
       \/ (~coordinates.iterable /\ coordinates.n = 0)
    THEN Raise(Exc("ValueError", "The coordinates must not be empty"))
    ELSE IF ~coordinates.iterable
    THEN Raise(Exc("TypeError", "The coordinates must be an iterable"))
    ELSE Ok([coordinates |-> [i \in 1..Len(coordinates.items) |->
                                 Decimal(coordinates.items[i])],
             dimension |-> Len(coordinates.items)])

\* Vector.magnitude
magnitude(self) ==
    LET coordinates_squared ==
            [i \in 1..Len(self.coordinates) |->
                DecMul(self.coordinates[i], self.coordinates[i])]
    IN  sqrt(sum(coordinates_squared))

\* Vector.times_scalar
times_scalar(self, c) ==
    Vector(DecList([i \in 1..Len(self.coordinates) |->
                       DecMul(Decimal(c), self.coordinates[i])]))

\* Vector.normalized without its except-clause
normalized_NoExcept(self) ==
    Bind(DecDiv(Decimal(FromStr("1.0")), magnitude(self)),
         LAMBDA c : times_scalar(self, FromDec(c)))

\* Vector.normalized
normalized(self) ==
    Try(Bind(DecDiv(Decimal(FromStr("1.0")), magnitude(self)),
             LAMBDA c : times_scalar(self, FromDec(c))),
        LAMBDA e : IF e.type = "ZeroDivisionError"
                   THEN Raise(Exc("Exception", CANNOT_NORMALIZE_ZERO_VECTOR_MSG))
                   ELSE Raise(e))

\* Vector.dot_product
dot_product(self, other) ==
    Try(Ok(sum([i \in 1..Len(zip(self.coordinates, other.coordinates)) |->
                   DecMul(self.coordinates[i], other.coordinates[i])])),
        LAMBDA e : IF e.type = "ValueError"
                   THEN Raise(Exc("Exception", "Vector lengths must be equal"))
                   ELSE Raise(e))

\* Vector.plus
plus(self, other) ==
    Vector(DecList([i \in 1..Len(zip(self.coordinates, other.coordinates)) |->
                       self.coordinates[i] + other.coordinates[i]]))

\* Vector.minus
minus(self, other) ==
    Vector(DecList([i \in 1..Len(zip(self.coordinates, other.coordinates)) |->
                       self.coordinates[i] - other.coordinates[i]]))

\* Vector.__eq__
Vector_eq(self, other) == self.coordinates = other.coordinates

\* math.acos of a Decimal: a domain error outside [-1, 1], otherwise the
\* angle, kept as the cosine it is the arc of
acos(x) ==
    IF x < -Scale \/ x > Scale
    THEN Raise(Exc("ValueError", "math domain error"))
    ELSE Ok([acos_of |-> x, in_degrees |-> FALSE])

\* the try-block of Vector.angle_with
angle_with_body(self, other, in_degrees) ==
    Bind(normalized(self), LAMBDA unit_1 :
    Bind(normalized(other), LAMBDA unit_2 :
    Bind(dot_product(unit_1, unit_2), LAMBDA cosine :
    Bind(acos(cosine), LAMBDA angle_in_radians :
        IF in_degrees
        THEN Ok([angle_in_radians EXCEPT !.in_degrees = TRUE])
        ELSE Ok(angle_in_radians)))))

\* Vector.angle_with
angle_with(self, other, in_degrees) ==
    Try(angle_with_body(self, other, in_degrees),
        LAMBDA e : IF e.msg = CANNOT_NORMALIZE_ZERO_VECTOR_MSG
                   THEN Raise(Exc("Exception",
                                  "Cannot compute an angle with zero vector"))
                   ELSE Raise(e))

\* is x units < 10^-exp ?  (a tolerance is a power of ten, 1e-10 by default)
BelowTolerance(x, exp) ==
    IF exp >= Digits THEN x < 1
                     ELSE x < Pow10(Digits - exp)

\* Vector.is_orthogonal_to: abs(self.dot(v)) < tolerance.  The lookup of
\* self.dot comes first; were there such a method, it would be the dot product
is_orthogonal_to(self, other, tolerance) ==
    Bind(GetAttr("dot"), LAMBDA dot :
    Bind(dot_product(self, other), LAMBDA product :
        Ok(BelowTolerance(Abs(product), tolerance))))

\* the try-block of Vector.component_parallel_to
component_parallel_to_body(self, basis) ==
    Bind(normalized(basis), LAMBDA u :
    Bind(dot_product(self, u), LAMBDA weight :
        times_scalar(u, FromDec(weight))))

\* Vector.component_parallel_to
component_parallel_to(self, basis) ==
    Try(component_parallel_to_body(self, basis),
        LAMBDA e : IF e.msg = CANNOT_NORMALIZE_ZERO_VECTOR_MSG
                   THEN Bind(GetAttr("NO_UNIQUE_PARALLEL_COMPONENT_MSG"),
                             LAMBDA msg : Raise(Exc("Exception", msg)))
                   ELSE Raise(e))

\* Vector.component_orthogonal_to
component_orthogonal_to(self, basis) ==
    Try(Bind(component_parallel_to(self, basis),
             LAMBDA projection : minus(self, projection)),
        LAMBDA e : IF e.msg = NO_UNIQUE_PARALLEL_COMPONENT_MSG
                   THEN Raise(Exc("Exception",
                                  NO_UNIQUE_ORTHOGONAL_COMPONENT_MSG))
                   ELSE Raise(e))

\* Vector.projected_vector
projected_vector(self, b) ==
    Bind(normalized(b), LAMBDA b_normalized :
    Bind(dot_product(self, b_normalized), LAMBDA weight :
        times_scalar(b_normalized, FromDec(weight))))

\* the same unpacking with the wording of CPython 3
Unpack3_Py3(coordinates) ==
    CASE Len(coordinates) = 3 -> Ok(coordinates)
      [] Len(coordinates) = 2 ->
            Raise(Exc("ValueError",
                      "not enough values to unpack (expected 3, got 2)"))
      [] Len(coordinates) = 1 ->
            Raise(Exc("ValueError",
                      "not enough values to unpack (expected 3, got 1)"))
      [] Len(coordinates) = 0 ->
            Raise(Exc("ValueError",
                      "not enough values to unpack (expected 3, got 0)"))
      [] Len(coordinates) > 3 ->
            Raise(Exc("ValueError", "too many values to unpack (expected 3)"))

\* x_1, y_1, z_1 = coordinates: the ValueError of a tuple that has not
\* exactly three elements
Unpack3(coordinates) ==
    CASE Len(coordinates) = 3 -> Ok(coordinates)
      [] Len(coordinates) = 2 ->
            Raise(Exc("ValueError", "need more than 2 values to unpack"))
      [] Len(coordinates) = 1 ->
            Raise(Exc("ValueError", "need more than 1 value to unpack"))
      [] Len(coordinates) = 0 ->
            Raise(Exc("ValueError", "need more than 0 values to unpack"))
      [] Len(coordinates) > 3 ->
            Raise(Exc("ValueError", "too many values to unpack"))

\* the three coordinates of the cross product with z_2 written for z_1 in
\* the first
new_coordinates_Typo(x_1, y_1, z_1, x_2, y_2, z_2) ==
    << DecMul(y_1, z_2) - DecMul(y_2, z_2),
       -(DecMul(x_1, z_2) - DecMul(x_2, z_1)),
       DecMul(x_1, y_2) - DecMul(x_2, y_1) >>

\* the three coordinates of the cross product
new_coordinates(x_1, y_1, z_1, x_2, y_2, z_2) ==
    << DecMul(y_1, z_2) - DecMul(y_2, z_1),
       -(DecMul(x_1, z_2) - DecMul(x_2, z_1)),
       DecMul(x_1, y_2) - DecMul(x_2, y_1) >>

\* the try-block of Vector.cross_product
cross_product_body(self, other) ==
    Bind(Unpack3(self.coordinates), LAMBDA a :
    Bind(Unpack3(other.coordinates), LAMBDA b :
        Vector(DecList(new_coordinates(a[1], a[2], a[3], b[1], b[2], b[3])))))

\* the embedding with '1.0' appended
EmbedInR3_One(self) ==
    Vector(List([i \in 1..Len(self.coordinates) + 1 |->
                    IF i <= Len(self.coordinates)
                    THEN FromDec(self.coordinates[i])
                    ELSE FromStr("1.0")]))

\* coordinates + ('0',), handed to Vector()
EmbedInR3(self) ==
    Vector(List([i \in 1..Len(self.coordinates) + 1 |->
                    IF i <= Len(self.coordinates)
                    THEN FromDec(self.coordinates[i])
                    ELSE FromStr("0")]))

RECURSIVE cross_product(_, _)
\* Vector.cross_product
cross_product(self, other) ==
    Try(cross_product_body(self, other),
        LAMBDA e :
            IF e.type # "ValueError" THEN Raise(e)
            ELSE IF e.msg = "need more than 2 values to unpack"
            THEN Bind(EmbedInR3(self), LAMBDA self_embedded_in_R3 :
                 Bind(EmbedInR3(other), LAMBDA v_embedded_in_R3 :
                     cross_product(self_embedded_in_R3, v_embedded_in_R3)))
            ELSE IF e.msg = "too many values to unpack"
                    \/ e.msg = "need more than 1 value to unpack"
            THEN Raise(Exc("Exception", ONLY_DEFINED_IN_TWO_THREE_DIMS_MSG))
            ELSE Raise(e))

----------------------------------------------------------------------------
(* The client *)

RECURSIVE SeqsUpTo(_, _)
\* the sequences over S of length 0..n
SeqsUpTo(S, n) ==
    IF n = 0 THEN {<<>>}
    ELSE LET shorter == SeqsUpTo(S, n - 1)
         IN  shorter \cup {Append(s, x) : s \in {t \in shorter : Len(t) = n - 1},
                                          x \in S}

\* the lists of ints a client constructs vectors from
Lists(S) == {List([i \in 1..Len(s) |-> FromInt(s[i])]) : s \in SeqsUpTo(S, MaxDim)}

\* the integers a client constructs vectors from
Coords == {0, 1}

\* constructor arguments: lists, the empty one among them, and two ints
Inputs(S) == Lists(S) \cup {NotIterable(0), NotIterable(5)}

\* the vectors a client can construct from lists over S
Constructed(S) ==
    {Vector(l).val : l \in {m \in Lists(S) : Vector(m).kind = "ok"}}

\* scalars passed to times_scalar, tolerances (as -log10) passed to
\* is_orthogonal_to
Scalars == {-1, 2}
Tolerances == {10, 0}

\* the results of these methods are Vectors
VectorMethods ==
    {"normalized", "component_parallel_to", "component_orthogonal_to",
     "projected_vector", "cross_product", "plus", "minus", "times_scalar"}

Call(op, arg) == [op |-> op, self |-> v, other |-> w, arg |-> arg]

\* r = v.op(w, arg)
Returns(op, arg, outcome) ==
    /\ pc = "call"
    /\ pc' = "done"
    /\ call' = Call(op, arg)
    /\ result' = outcome
    /\ UNCHANGED <<v, w, chain>>

\* the client holds one vector under both names and is about to construct
\* the second
InitOver(S) ==
    /\ v \in Constructed(S)
    /\ w = v
    /\ call = [op |-> "none", self |-> v, other |-> w, arg |-> 0]
    /\ result = [kind |-> "none"]
    /\ chain = 0
    /\ pc = "construct"

Init == InitOver(Coords)

\* w = Vector(input): binds w when the constructor returns
ConstructOver(S) ==
    \E input \in Inputs(S) :
        LET made == Vector(input)
        IN  /\ pc = "construct"
            /\ pc' = "call"
            /\ call' = Call("Vector", input)
            /\ result' = made
            /\ w' = IF made.kind = "ok" THEN made.val ELSE w
            /\ UNCHANGED <<v, chain>>

Construct == ConstructOver(Coords)

Normalized == Returns("normalized", 0, normalized(v))

DotProduct == Returns("dot_product", 0, dot_product(v, w))

AngleWith ==
    \E in_degrees \in BOOLEAN :
        Returns("angle_with", in_degrees, angle_with(v, w, in_degrees))

IsOrthogonalTo ==
    \E tolerance \in Tolerances :
        Returns("is_orthogonal_to", tolerance, is_orthogonal_to(v, w, tolerance))

ComponentParallelTo ==
    Returns("component_parallel_to", 0, component_parallel_to(v, w))

ComponentOrthogonalTo ==
    Returns("component_orthogonal_to", 0, component_orthogonal_to(v, w))

ProjectedVector == Returns("projected_vector", 0, projected_vector(v, w))

CrossProduct == Returns("cross_product", 0, cross_product(v, w))

Plus == Returns("plus", 0, plus(v, w))

Minus == Returns("minus", 0, minus(v, w))

TimesScalar ==
    \E c \in Scalars : Returns("times_scalar", c, times_scalar(v, FromInt(c)))

Methods ==
    \/ Normalized
    \/ DotProduct
    \/ AngleWith
    \/ IsOrthogonalTo
    \/ ComponentParallelTo
    \/ ComponentOrthogonalTo
    \/ ProjectedVector
    \/ CrossProduct
    \/ Plus
    \/ Minus
    \/ TimesScalar

Next == Construct \/ Methods

Spec == Init /\ [][Next]_vars

----------------------------------------------------------------------------------------------------------------------------------------
(* A client of cross_product alone, over signed coordinates *)

CrossCoords == {-1, 0, 2}

InitCross == InitOver(CrossCoords)

ConstructCross == ConstructOver(CrossCoords)

NextCross == ConstructCross \/ CrossProduct

SpecCross == InitCross /\ [][NextCross]_vars

----------------------------------------------------------------------------
(* A client that goes on with the Vector a method returned *)

\* v is constructed from ones, w from zeros and ones
ChainSeeds == {1}
ChainCoords == {0, 1}

\* a result the client goes on with: no coordinate beyond MaxAbs, and the
\* vector zero or with a coordinate of at least a quarter, so that the
\* rounding of its magnitude stays small against the magnitude
InRange(vec) ==
    /\ \A i \in 1..Len(vec.coordinates) :
           Abs(vec.coordinates[i]) <= MaxAbs * Scale
    /\ \/ \A i \in 1..Len(vec.coordinates) : vec.coordinates[i] = 0
       \/ \E i \in 1..Len(vec.coordinates) :
              4 * Abs(vec.coordinates[i]) >= Scale

InitChain == InitOver(ChainSeeds)

ConstructChain == ConstructOver(ChainCoords)

\* v = r or w = r, for a Vector r, and on to the next call
Keep ==
    \E dst \in {"v", "w"} :
        /\ pc = "done"
        /\ chain < MaxChain
        /\ call.op \in VectorMethods
        /\ result.kind = "ok"
        /\ InRange(result.val)
        /\ v' = IF dst = "v" THEN result.val ELSE v
        /\ w' = IF dst = "w" THEN result.val ELSE w
        /\ chain' = chain + 1
        /\ pc' = "call"
        /\ UNCHANGED <<call, result>>

ReturnsVector ==
    \/ Normalized
    \/ ComponentParallelTo
    \/ ComponentOrthogonalTo
    \/ ProjectedVector
    \/ CrossProduct
    \/ Plus
    \/ Minus
    \/ TimesScalar

NextChain == ConstructChain \/ ReturnsVector \/ Keep

SpecChain == InitChain /\ [][NextChain]_vars

----------------------------------------------------------------------------
(* Properties *)

\* the client has just called op
Called(op) == pc = "done" /\ call.op = op

\* the call raised exception e
Raised(e) == result.kind = "raise" /\ result.exc = e

SameDimension == call.self.dimension = call.other.dimension

IsZeroVector(vec) == \A i \in 1..Len(vec.coordinates) : vec.coordinates[i] = 0

\* C1: dot_product of two vectors of different dimension fails with the
\* dimension-mismatch error and returns no number.
C1_DotProductMismatchFails ==
    (Called("dot_product") /\ ~SameDimension)
        => Raised(Exc("Exception", "Vector lengths must be equal"))

\* C2: plus and minus of two vectors of different dimension fail with a
\* dimension-mismatch error and return no vector.
C2_PlusMinusMismatchFail ==
    ((Called("plus") \/ Called("minus")) /\ ~SameDimension)
        => /\ result.kind = "raise"
           /\ result.exc.type = "Exception"
           /\ result.exc.msg \in {"Vector lengths must be equal",
                                   ONLY_DEFINED_IN_TWO_THREE_DIMS_MSG}

\* C3: cross_product of two vectors that are neither both 3-dimensional nor
\* both 2-dimensional fails with the only-defined-in-two-or-three-dimensions
\* error and returns no vector.
C3_CrossProductOtherDimsFail ==
    (/\ Called("cross_product")
     /\ ~(call.self.dimension = 3 /\ call.other.dimension = 3)
     /\ ~(call.self.dimension = 2 /\ call.other.dimension = 2))
        => Raised(Exc("Exception", ONLY_DEFINED_IN_TWO_THREE_DIMS_MSG))

\* C3 witness: a 2-dimensional self and a 3-dimensional other, refused on the
\* recursive call that follows the embedding.
C3_Witness ==
    /\ Called("cross_product")
    /\ call.self.dimension = 2
    /\ call.other.dimension = 3
    /\ result.kind = "raise"
    /\ result.exc.msg = ONLY_DEFINED_IN_TWO_THREE_DIMS_MSG

\* C4: cross_product of (x1, y1) and (x2, y2) returns (0, 0, x1*y2 - x2*y1),
\* the cross product of (x1, y1, 0) and (x2, y2, 0), and both operands stay
\* 2-dimensional.
C4_CrossProduct2D ==
    (/\ Called("cross_product")
     /\ call.self.dimension = 2
     /\ call.other.dimension = 2)
        => LET x1 == call.self.coordinates[1]
               y1 == call.self.coordinates[2]
               x2 == call.other.coordinates[1]
               y2 == call.other.coordinates[2]
           IN  /\ result.kind = "ok"
               /\ result.val.dimension = 3
               /\ result.val.coordinates
                      = <<0, 0, (x1 * y2 - x2 * y1) \div Scale>>
               /\ LET in_R3 == cross_product(
                                    Vector(DecList(<<x1, y1, 0>>)).val,
                                    Vector(DecList(<<x2, y2, 0>>)).val)
                  IN  in_R3.kind = "ok" /\ Vector_eq(result.val, in_R3.val)
               /\ v = call.self /\ v.dimension = 2
               /\ w = call.other /\ w.dimension = 2

\* C4 witness: two 2-dimensional vectors whose cross product is not zero.
C4_Witness ==
    /\ Called("cross_product")
    /\ call.self.dimension = 2
    /\ call.other.dimension = 2
    /\ result.kind = "ok"
    /\ result.val.coordinates[3] # 0

\* C5: component_parallel_to a zero basis of the same dimension fails with
\* the no-unique-parallel-component error and no other.
C5_ParallelToZeroBasis ==
    (Called("component_parallel_to") /\ SameDimension /\ IsZeroVector(call.other))
        => Raised(Exc("Exception", NO_UNIQUE_PARALLEL_COMPONENT_MSG))

\* C6: component_orthogonal_to a zero basis of the same dimension fails with
\* the no-unique-orthogonal-component error and no other.
C6_OrthogonalToZeroBasis ==
    (Called("component_orthogonal_to") /\ SameDimension
        /\ IsZeroVector(call.other))
        => Raised(Exc("Exception", NO_UNIQUE_ORTHOGONAL_COMPONENT_MSG))

\* C7: is_orthogonal_to on two vectors of equal dimension raises nothing and
\* returns whether |dot_product| is below the tolerance.
C7_IsOrthogonalTo ==
    (Called("is_orthogonal_to") /\ SameDimension)
        => /\ result.kind = "ok"
           /\ result.val
                  = BelowTolerance(Abs(dot_product(call.self, call.other).val),
                                   call.arg)

\* C8: angle_with on two vectors of equal dimension, one of them zero, fails
\* with the angle-with-zero-vector error; an error of the computation that is
\* not the normalization failure comes out as it was raised.
C8_AngleWithZeroVector ==
    Called("angle_with") =>
        LET body == angle_with_body(call.self, call.other, call.arg)
        IN  /\ (SameDimension
                  /\ (IsZeroVector(call.self) \/ IsZeroVector(call.other)))
                  => Raised(Exc("Exception",
                                "Cannot compute an angle with zero vector"))
            /\ (body.kind = "raise"
                  /\ body.exc # Exc("Exception",
                                     CANNOT_NORMALIZE_ZERO_VECTOR_MSG))
                  => Raised(body.exc)

\* C8 witness: a nonzero self against a zero vector of the same dimension.
C8_Witness ==
    /\ Called("angle_with")
    /\ SameDimension
    /\ ~IsZeroVector(call.self)
    /\ IsZeroVector(call.other)
    /\ result.kind = "raise"

WellFormed(vec) ==
    /\ vec.dimension = Len(vec.coordinates)
    /\ vec.dimension >= 1

\* C9: every Vector has as many coordinates as its dimension says and at
\* least one; Vector() of an empty sequence raises the ValueError about
\* empty coordinates and binds nothing.
C9_DimensionInvariant ==
    /\ WellFormed(v)
    /\ WellFormed(w)
    /\ (pc = "done" /\ call.op \in VectorMethods /\ result.kind = "ok")
            => WellFormed(result.val)
    /\ (call.op = "Vector" /\ result.kind = "ok") => WellFormed(result.val)
    /\ (call.op = "Vector" /\ call.arg = List(<<>>))
            => /\ Raised(Exc("ValueError",
                             "The coordinates must not be empty"))
               /\ (pc = "call" => w = call.other)

\* C9 witness: a cross product of a kept result of an earlier method.
C9_Witness ==
    /\ Called("cross_product")
    /\ chain >= 1
    /\ result.kind = "ok"
    /\ ~IsZeroVector(result.val)

\* C10: for 3-dimensional v and w, v.cross_product(w) equals
\* w.cross_product(v).times_scalar(-1) under Vector equality.
C10_CrossProductAntiCommutes ==
    (/\ Called("cross_product")
     /\ call.self.dimension = 3
     /\ call.other.dimension = 3)
        => LET reversed == cross_product(call.other, call.self)
           IN  /\ result.kind = "ok"
               /\ reversed.kind = "ok"
               /\ LET negated == times_scalar(reversed.val, FromInt(-1))
                   IN  /\ negated.kind = "ok"
                       /\ Vector_eq(result.val, negated.val)

\* C10 witness: two 3-dimensional vectors whose cross product is not zero.
C10_Witness ==
    /\ Called("cross_product")
    /\ call.self.dimension = 3
    /\ call.other.dimension = 3
    /\ result.kind = "ok"
    /\ ~IsZeroVector(result.val)

====
